---- MODULE Spec2Model ----
(***************************************************************************)
(* Model of src/src/disk.rs: the per-disk I/O counter snapshot builder,    *)
(* the nowrap accumulator DiskIOCountersNoWrap and the aggregator.         *)
(*                                                                         *)
(* u64 values are triples of 24-bit limbs, because the counters and the    *)
(* constant 2^32 do not fit the model checker's integers.  Texts are       *)
(* sequences of one-character strings.  A step of the source that binds a  *)
(* value and goes on (let x = ...; ...) is an operator applied to that     *)
(* value.                                                                  *)
(*                                                                         *)
(* Spec is one accumulator and its callers.  EnumSpec is one call of       *)
(* get_partitions on a partition table, PollSpec one call of               *)
(* disk_io_counters_perdisk on a new accumulator with one set of files.    *)
(***************************************************************************)
EXTENDS Integers, Sequences, FiniteSets, TLC

VARIABLES
    disk_io_counters,            \* self.disk_io_counters ("current")
    disk_io_counters_last_call,  \* self.disk_io_counters_last_call ("lastRaw")
    initialize,                  \* self.initialize
    overflow_checks,             \* build profile: TRUE panics on u64 overflow, FALSE wraps
    ret,                         \* what the last operation returned
    reads,                       \* device names and raw read_count at position 1 of the nowrap polls since new or cache_clear
    partition_table,             \* the text given to get_partitions, when it is called on its own
    enumerated,                  \* what that call returned: <<>> before it, <<result>> after it
    poll_files,                  \* the files of the one poll of a new accumulator
    first_poll                   \* what that poll returned: <<>> before it, <<result>> after it

vars == <<disk_io_counters, disk_io_counters_last_call, initialize, overflow_checks, ret, reads,
          partition_table, enumerated, poll_files, first_poll>>

\* the variables of the calls of one function on its own
alone == <<partition_table, enumerated, poll_files, first_poll>>

(***************************************************************************)
(* Natural numbers below 2^72 as three limbs of 24 bits, least significant *)
(* first: <<a0, a1, a2>> is a0 + a1 * 2^24 + a2 * 2^48.  A u64 is such a   *)
(* number with a2 < 2^16.                                                  *)
(***************************************************************************)

LimbBase == 4096 * 4096

TopLimit == 256 * 256

Zero == <<0, 0, 0>>

Small(n) == <<n, 0, 0>>

Low(s) == s % LimbBase

Carry(s) == s \div LimbBase

Borrow(d) == IF d < 0 THEN 1 ELSE 0

NatAdd(a, b) ==
    <<Low(a[1] + b[1]),
      Low(a[2] + b[2] + Carry(a[1] + b[1])),
      a[3] + b[3] + Carry(a[2] + b[2] + Carry(a[1] + b[1]))>>

NatGeq(a, b) ==
    IF a[3] # b[3] THEN a[3] > b[3]
    ELSE IF a[2] # b[2] THEN a[2] > b[2]
    ELSE a[1] >= b[1]

NatLess(a, b) == ~NatGeq(a, b)

\* a - b, for a >= b
NatSub(a, b) ==
    <<Low(a[1] - b[1]),
      Low(a[2] - b[2] - Borrow(a[1] - b[1])),
      a[3] - b[3] - Borrow(a[2] - b[2] - Borrow(a[1] - b[1]))>>

\* a * d for a small factor d (d < 128)
NatMulSmall(a, d) ==
    <<Low(a[1] * d),
      Low(a[2] * d + Carry(a[1] * d)),
      a[3] * d + Carry(a[2] * d + Carry(a[1] * d))>>

NatHalf(a) ==
    <<(a[1] \div 2) + (a[2] % 2) * (LimbBase \div 2),
      (a[2] \div 2) + (a[3] % 2) * (LimbBase \div 2),
      a[3] \div 2>>

FitsU64(n) == n[3] < TopLimit

\* the value modulo 2^64
WrapU64(n) == <<n[1], n[2], n[3] % TopLimit>>

TwoTo64 == <<0, 0, TopLimit>>

(***************************************************************************)
(* u64 arithmetic of the language: the value a build without overflow      *)
(* checks computes (v), and whether a build with overflow checks panics    *)
(* (ovf)                                                                   *)
(***************************************************************************)

u64_result(n) == [v |-> WrapU64(n), ovf |-> ~FitsU64(n)]

u64_add(a, b) == u64_result(NatAdd(a, b))

u64_sub(a, b) ==
    IF NatGeq(a, b) THEN [v |-> NatSub(a, b), ovf |-> FALSE]
    ELSE [v |-> NatSub(NatAdd(a, TwoTo64), b), ovf |-> TRUE]

\* the result s of an operation that follows one with result r
after(r, s) == [v |-> s.v, ovf |-> r.ovf \/ s.ovf]

mul_odd(d, a, odd) == IF odd THEN after(d, u64_add(d.v, a)) ELSE d

mul_double(h, a, odd) ==
    IF h.v = Zero THEN mul_odd(h, a, odd)
    ELSE mul_odd(after(h, u64_add(h.v, h.v)), a, odd)

\* a * b by doubling: a * b = 2 * (a * (b div 2)) + (a if b is odd)
RECURSIVE u64_mul(_, _)
u64_mul(a, b) ==
    IF b = Zero THEN [v |-> Zero, ovf |-> FALSE]
    ELSE mul_double(u64_mul(a, NatHalf(b)), a, b[1] % 2 = 1)

(***************************************************************************)
(* Text: str::lines, split_whitespace, trim, starts_with, ends_with, parse *)
(***************************************************************************)

Digits == {"0", "1", "2", "3", "4", "5", "6", "7", "8", "9"}

DigitVal == [c \in Digits |->
    CASE c = "0" -> 0 [] c = "1" -> 1 [] c = "2" -> 2 [] c = "3" -> 3 [] c = "4" -> 4
      [] c = "5" -> 5 [] c = "6" -> 6 [] c = "7" -> 7 [] c = "8" -> 8 [] c = "9" -> 9]

Whitespace == {" ", "\t", "\n", "\r"}

Least(S) == CHOOSE x \in S : \A y \in S : x <= y

\* the elements of a finite set of integers in increasing order
RECURSIVE Sorted(_)
Sorted(S) == IF S = {} THEN <<>> ELSE <<Least(S)>> \o Sorted(S \ {Least(S)})

Newlines(text) == {i \in 1..Len(text) : text[i] = "\n"}

\* where the lines of text end: at each "\n", and at the end of a text that does not end in "\n"
LineEnds(text) ==
    Newlines(text)
    \cup (IF Len(text) > 0 /\ text[Len(text)] # "\n" THEN {Len(text) + 1} ELSE {})

\* where the line that ends at e starts
LineStart(text, e) ==
    IF \E j \in Newlines(text) : j < e
    THEN 1 + CHOOSE j \in Newlines(text) : j < e /\ \A k \in Newlines(text) : k < e => k <= j
    ELSE 1

strip_cr(l) == IF l # <<>> /\ l[Len(l)] = "\r" THEN SubSeq(l, 1, Len(l) - 1) ELSE l

RECURSIVE lines_from(_, _, _)
lines_from(text, ends, k) ==
    IF k > Len(ends) THEN <<>>
    ELSE <<strip_cr(SubSeq(text, LineStart(text, ends[k]), ends[k] - 1))>>
         \o lines_from(text, ends, k + 1)

\* str::lines: split at "\n", a final empty piece is dropped, a trailing "\r" of a line is dropped
lines(text) == lines_from(text, Sorted(LineEnds(text)), 1)

TokenStarts(line) ==
    {i \in 1..Len(line) : line[i] \notin Whitespace /\ (i = 1 \/ line[i - 1] \in Whitespace)}

TokenStop(line, s) ==
    CHOOSE j \in s..Len(line) :
        /\ j = Len(line) \/ line[j + 1] \in Whitespace
        /\ \A k \in s..j : line[k] \notin Whitespace

RECURSIVE tokens_from(_, _, _)
tokens_from(line, starts, k) ==
    IF k > Len(starts) THEN <<>>
    ELSE <<SubSeq(line, starts[k], TokenStop(line, starts[k]))>>
         \o tokens_from(line, starts, k + 1)

\* str::split_whitespace: the maximal runs of non-whitespace characters
split_whitespace(line) == tokens_from(line, Sorted(TokenStarts(line)), 1)

RECURSIVE trim_start(_)
trim_start(s) ==
    IF s # <<>> /\ s[1] \in Whitespace THEN trim_start(Tail(s)) ELSE s

RECURSIVE trim_end(_)
trim_end(s) ==
    IF s # <<>> /\ s[Len(s)] \in Whitespace THEN trim_end(SubSeq(s, 1, Len(s) - 1)) ELSE s

trim(s) == trim_end(trim_start(s))

starts_with(s, prefix) ==
    Len(prefix) <= Len(s) /\ SubSeq(s, 1, Len(prefix)) = prefix

ends_with(s, suffix) ==
    Len(suffix) <= Len(s) /\ SubSeq(s, Len(s) - Len(suffix) + 1, Len(s)) = suffix

contains(seq, x) == \E i \in 1..Len(seq) : seq[i] = x

NotANumber == [ok |-> FALSE, v |-> Zero]

RECURSIVE parse_digits(_, _, _)
RECURSIVE parse_push(_, _, _)

\* acc * 10 + digit, checked
parse_push(ds, i, m) ==
    IF ~FitsU64(m) \/ ~FitsU64(NatAdd(m, Small(DigitVal[ds[i]]))) THEN NotANumber
    ELSE parse_digits(ds, i + 1, NatAdd(m, Small(DigitVal[ds[i]])))

parse_digits(ds, i, acc) ==
    IF i > Len(ds) THEN [ok |-> TRUE, v |-> acc]
    ELSE IF ds[i] \notin Digits THEN NotANumber
    ELSE parse_push(ds, i, NatMulSmall(acc, 10))

parse_unsigned(ds) == IF ds = <<>> THEN NotANumber ELSE parse_digits(ds, 1, Zero)

\* str::parse::<u64>: an optional "+", then one or more decimal digits, value below 2^64
parse_u64(s) == parse_unsigned(IF s # <<>> /\ s[1] = "+" THEN Tail(s) ELSE s)

(***************************************************************************)
(* Results                                                                 *)
(***************************************************************************)

Ok(x) == [ok |-> TRUE, v |-> x, err |-> "none"]

Err(kind) == [ok |-> FALSE, v |-> <<>>, err |-> kind]

(***************************************************************************)
(* Files: the partition table, the statistics text and the per-device      *)
(* sector-size attributes, as one poll finds them                          *)
(***************************************************************************)

File(text) == [readable |-> TRUE, text |-> text]

NoFile == [readable |-> FALSE, text |-> <<>>]

read_file(file) == IF file.readable THEN Ok(file.text) ELSE Err("io")

(***************************************************************************)
(* get_partitions                                                          *)
(***************************************************************************)

ends_with_digit(name) == \E d \in Digits : ends_with(name, <<d>>)

\* an enumerator that reads the two first lines as data
data_lines_with_header(all) == all

\* lines 226-229: the two first lines are removed
data_lines(all) == IF Len(all) >= 2 THEN SubSeq(all, 3, Len(all)) ELSE all

RECURSIVE partitions_from(_, _, _)
RECURSIVE partition_line(_, _, _, _)

\* an enumerator that looks for the name of a disk at the start of every name kept
partition_line_any_kept(ls, i, partitions, fields) ==
    IF Len(fields) = 4 /\ ends_with_digit(fields[4])
    THEN partitions_from(ls, i - 1, Append(partitions, fields[4]))
    ELSE IF Len(fields) # 4 THEN Err("partitions")
    ELSE IF \A k \in 1..Len(partitions) : ~starts_with(partitions[k], fields[4])
    THEN partitions_from(ls, i - 1, Append(partitions, fields[4]))
    ELSE partitions_from(ls, i - 1, partitions)

\* an enumerator that keeps the line of a disk whether or not a partition of it was kept
partition_line_keeping_disks(ls, i, partitions, fields) ==
    IF Len(fields) # 4 THEN Err("partitions")
    ELSE partitions_from(ls, i - 1, Append(partitions, fields[4]))

\* lines 233-264: one line of the table, its fields split
partition_line(ls, i, partitions, fields) ==
    IF Len(fields) = 4 /\ ends_with_digit(fields[4])
    THEN partitions_from(ls, i - 1, Append(partitions, fields[4]))
    ELSE IF Len(fields) # 4 THEN Err("partitions")
    ELSE IF partitions = <<>> \/ ~starts_with(partitions[Len(partitions)], fields[4])
    THEN partitions_from(ls, i - 1, Append(partitions, fields[4]))
    ELSE partitions_from(ls, i - 1, partitions)

\* line 231: the lines from the last to the first
partitions_from(ls, i, partitions) ==
    IF i = 0 THEN Ok(partitions)
    ELSE partition_line(ls, i, partitions, split_whitespace(ls[i]))

partitions_of(ls) == partitions_from(ls, Len(ls), <<>>)

get_partitions(data) == partitions_of(data_lines(lines(data)))

(***************************************************************************)
(* get_sector_size, line_disk_stats                                        *)
(***************************************************************************)

default_sector_size == Small(512)

parsed_sector_size(p) == IF p.ok THEN Ok(p.v) ELSE Err("sector_size")

sector_size_of(r) ==
    IF ~r.ok THEN Ok(default_sector_size) ELSE parsed_sector_size(parse_u64(trim(r.v)))

\* a resolver for which an attribute that cannot be read is an error
get_sector_size_strict(sys, partition_name) ==
    IF partition_name \in DOMAIN sys
    THEN sector_size_of(read_file(sys[partition_name]))
    ELSE Err("sector_size")

\* sys maps a device name to the file /sys/block/<name>/queue/hw_sector_size
get_sector_size(sys, partition_name) ==
    sector_size_of(read_file(IF partition_name \in DOMAIN sys
                             THEN sys[partition_name] ELSE NoFile))

RECURSIVE stats_from(_, _, _)
RECURSIVE stats_push(_, _, _, _)

stats_push(line, i, result, p) ==
    IF p.ok THEN stats_from(line, i + 1, Append(result, p.v)) ELSE Err("counter")

stats_from(line, i, result) ==
    IF i > Len(line) THEN Ok(result) ELSE stats_push(line, i, result, parse_u64(line[i]))

line_disk_stats(line) == stats_from(line, 1, <<>>)

(***************************************************************************)
(* DiskIOCounters and the snapshot loop of disk_io_counters_perdisk        *)
(***************************************************************************)

Fields == {"read_count", "write_count", "read_bytes", "write_bytes", "read_time",
           "write_time", "read_merged_count", "write_merged_count", "busy_time"}

LineErr(kind) ==
    [status |-> "err", err |-> kind, push |-> <<>>, names |-> <<>>, ovf |-> FALSE]

\* lines 168-178.  disk_infos is 1-based here: disk_infos[k + 1] is the source's disk_infos[k]
disk_push(name, disk_infos, read_bytes, write_bytes) ==
    [status |-> "ok", err |-> "none",
     push |-> <<[read_count |-> disk_infos[1],
                 write_count |-> disk_infos[5],
                 read_bytes |-> read_bytes.v,
                 write_bytes |-> write_bytes.v,
                 read_time |-> disk_infos[4],
                 write_time |-> disk_infos[8],
                 read_merged_count |-> disk_infos[2],
                 write_merged_count |-> disk_infos[6],
                 busy_time |-> disk_infos[10]]>>,
     names |-> <<name>>,
     ovf |-> read_bytes.ovf \/ write_bytes.ovf]

\* a snapshot whose byte counters are the sector counts
disk_sized_in_sectors(name, disk_infos, ssize) ==
    IF ~ssize.ok THEN LineErr(ssize.err)
    ELSE disk_push(name, disk_infos, [v |-> disk_infos[3], ovf |-> FALSE],
                   [v |-> disk_infos[7], ovf |-> FALSE])

\* line 167
disk_sized(name, disk_infos, ssize) ==
    IF ~ssize.ok THEN LineErr(ssize.err)
    ELSE disk_push(name, disk_infos, u64_mul(disk_infos[3], ssize.v),
                   u64_mul(disk_infos[7], ssize.v))

\* a loop that pushes a snapshot for every record, listed or not
disk_parsed_every_record(name, parsed, partitions, sys) ==
    IF ~parsed.ok THEN LineErr(parsed.err)
    ELSE disk_sized(name, parsed.v, get_sector_size(sys, name))

\* lines 163-166
disk_parsed(name, parsed, partitions, sys) ==
    IF ~parsed.ok THEN LineErr(parsed.err)
    ELSE IF ~contains(partitions, name)
    THEN [status |-> "ok", err |-> "none", push |-> <<>>, names |-> <<>>, ovf |-> FALSE]
    ELSE disk_sized(name, parsed.v, get_sector_size(sys, name))

\* a loop that passes over a record of another field count
disk_fields_skipping(fields, partitions, sys) ==
    IF Len(fields) # 14
    THEN [status |-> "ok", err |-> "none", push |-> <<>>, names |-> <<>>, ovf |-> FALSE]
    ELSE disk_parsed(fields[3], line_disk_stats(SubSeq(fields, 4, 14)), partitions, sys)

\* lines 158-162 and 180-185
disk_fields(fields, partitions, sys) ==
    IF Len(fields) # 14 THEN LineErr("diskstats")
    ELSE disk_parsed(fields[3], line_disk_stats(SubSeq(fields, 4, 14)), partitions, sys)

\* one record of the statistics text: the snapshot pushed for it, if any, and the
\* name of its device (line 162), which the snapshot itself does not keep
disk_line(line, partitions, sys) == disk_fields(split_whitespace(line), partitions, sys)

PollErr(kind) == [status |-> "err", err |-> kind, infos |-> <<>>, names |-> <<>>]

RECURSIVE stat_lines(_, _, _, _, _, _, _)
RECURSIVE stat_line_done(_, _, _, _, _, _, _, _)

stat_line_done(r, ls, i, disks_infos, names, partitions, sys, checks) ==
    IF r.status = "err" THEN PollErr(r.err)
    ELSE IF r.ovf /\ checks
    THEN [status |-> "panic", err |-> "overflow", infos |-> <<>>, names |-> <<>>]
    ELSE stat_lines(ls, i + 1, disks_infos \o r.push, names \o r.names,
                    partitions, sys, checks)

\* lines 156-186: the loop over the records
stat_lines(ls, i, disks_infos, names, partitions, sys, checks) ==
    IF i > Len(ls)
    THEN [status |-> "ok", err |-> "none", infos |-> disks_infos, names |-> names]
    ELSE stat_line_done(disk_line(ls[i], partitions, sys), ls, i, disks_infos, names,
                        partitions, sys, checks)

\* lines 152-153
with_disk_stats(partitions, disk_stats, sys, checks) ==
    IF ~disk_stats.ok THEN PollErr(disk_stats.err)
    ELSE stat_lines(lines(disk_stats.v), 1, <<>>, <<>>, partitions, sys, checks)

\* line 151
with_partitions(partitions, fs, checks) ==
    IF ~partitions.ok THEN PollErr(partitions.err)
    ELSE with_disk_stats(partitions.v, read_file(fs.diskstats), fs.sys, checks)

\* line 150
with_partitions_file(partitions, fs, checks) ==
    IF ~partitions.ok THEN PollErr(partitions.err)
    ELSE with_partitions(get_partitions(partitions.v), fs, checks)

\* lines 150-186: the raw snapshot set of one poll with the names of its devices,
\* an error, or a panic
disks_infos_of(fs, checks) == with_partitions_file(read_file(fs.partitions), fs, checks)

(***************************************************************************)
(* total_disk_io_counters                                                  *)
(***************************************************************************)

\* 4294967296 = 256 * 2^24
max_value == <<0, 256, 0>>

sub_after(s, past) == after(s, u64_sub(s.v, past))

\* current + max_value - past, evaluated left to right on u64
add_back(current, past) == sub_after(u64_add(current, max_value), past)

same(current) == [v |-> current, ovf |-> FALSE]

total_counters(past_counters, current_counters) ==
    [read_count |->
        IF NatGeq(current_counters.read_count, past_counters.read_count)
        THEN same(current_counters.read_count)
        ELSE add_back(current_counters.read_count, past_counters.read_count),
     write_count |->
        IF NatGeq(current_counters.write_count, past_counters.write_count)
        THEN same(current_counters.write_count)
        ELSE add_back(current_counters.write_count, past_counters.write_count),
     read_bytes |->
        IF NatGeq(current_counters.read_bytes, past_counters.read_bytes)
        THEN same(current_counters.read_bytes)
        ELSE add_back(current_counters.read_bytes, past_counters.read_bytes),
     write_bytes |->
        IF NatGeq(current_counters.write_bytes, past_counters.write_bytes)
        THEN same(current_counters.write_bytes)
        ELSE add_back(current_counters.write_bytes, past_counters.write_bytes),
     read_time |->
        IF NatGeq(current_counters.read_time, past_counters.read_time)
        THEN same(current_counters.read_time)
        ELSE add_back(current_counters.read_time, past_counters.read_time),
     write_time |->
        IF NatGeq(current_counters.write_time, past_counters.write_time)
        THEN same(current_counters.write_time)
        ELSE add_back(current_counters.write_time, past_counters.write_time),
     read_merged_count |->
        IF NatGeq(current_counters.read_merged_count, past_counters.read_merged_count)
        THEN same(current_counters.read_merged_count)
        ELSE add_back(current_counters.read_merged_count, past_counters.read_merged_count),
     write_merged_count |->
        IF NatGeq(current_counters.write_merged_count, past_counters.write_merged_count)
        THEN same(current_counters.write_merged_count)
        ELSE add_back(current_counters.write_merged_count, past_counters.write_merged_count),
     busy_time |->
        IF NatGeq(current_counters.busy_time, past_counters.busy_time)
        THEN same(current_counters.busy_time)
        ELSE add_back(current_counters.busy_time, past_counters.busy_time)]

\* the DiskIOCounters of a record of [v, ovf] results
values_of(c) ==
    [read_count |-> c.read_count.v, write_count |-> c.write_count.v,
     read_bytes |-> c.read_bytes.v, write_bytes |-> c.write_bytes.v,
     read_time |-> c.read_time.v, write_time |-> c.write_time.v,
     read_merged_count |-> c.read_merged_count.v,
     write_merged_count |-> c.write_merged_count.v,
     busy_time |-> c.busy_time.v]

overflow_of(c) == \E f \in Fields : c[f].ovf

total_push(c, rest) == [v |-> <<values_of(c)>> \o rest.v, ovf |-> overflow_of(c) \/ rest.ovf]

\* lines 312-381
RECURSIVE total_from(_, _, _)
total_from(past_disk_io_counters, current_disk_io_counters, iter) ==
    IF iter > Len(past_disk_io_counters) THEN [v |-> <<>>, ovf |-> FALSE]
    ELSE total_push(total_counters(past_disk_io_counters[iter],
                                   current_disk_io_counters[iter]),
                    total_from(past_disk_io_counters, current_disk_io_counters, iter + 1))

total_disk_io_counters(past_disk_io_counters, current_disk_io_counters) ==
    IF Len(past_disk_io_counters) = Len(current_disk_io_counters)
    THEN total_from(past_disk_io_counters, current_disk_io_counters, 1)
    ELSE [v |-> <<>>, ovf |-> FALSE]

(***************************************************************************)
(* The inputs of the polls: a few partition tables, statistics texts and   *)
(* sector-size attributes                                                  *)
(***************************************************************************)

DigitChar == <<"0", "1", "2", "3", "4", "5", "6", "7", "8", "9">>

\* the decimal text of the digits ds
RECURSIVE Str(_)
Str(ds) == IF ds = <<>> THEN <<>> ELSE <<DigitChar[Head(ds) + 1]>> \o Str(Tail(ds))

RECURSIVE unwords(_)
unwords(ws) ==
    IF ws = <<>> THEN <<>>
    ELSE IF Len(ws) = 1 THEN ws[1]
    ELSE ws[1] \o <<" ">> \o unwords(Tail(ws))

RECURSIVE unlines(_)
unlines(ls) == IF ls = <<>> THEN <<>> ELSE ls[1] \o <<"\n">> \o unlines(Tail(ls))

sda == <<"s", "d", "a">>
sda1 == <<"s", "d", "a", "1">>
sdb == <<"s", "d", "b">>
vda == <<"v", "d", "a">>

Big == <<4, 2, 9, 4, 9, 6, 7, 2, 9, 0>>
Top == <<4, 2, 9, 4, 9, 6, 7, 2, 9, 5>>

\* the eleven counters of a statistics record, as decimal digits
Rows ==
    << << <<1, 0, 0>>, <<7>>, <<8>>, <<3, 0>>, <<5, 0>>, Top, <<1, 6>>, <<9>>, <<0>>, <<4, 0>>, <<4, 1>> >>,
       << Big, <<7>>, <<1, 6>>, <<3, 1>>, Top, <<0>>, <<8>>, Big, <<1>>, Big, <<4, 2>> >>,
       << <<5>>, <<6>>, Big, <<3, 2>>, <<4, 9>>, <<1>>, <<2, 4>>, <<1, 0>>, <<0>>, <<3, 9>>, <<4, 3>> >> >>

NumRows == Len(Rows)

RowText(r) == [k \in 1..11 |-> Str(Rows[r][k])]

NextRow(r) == (r % NumRows) + 1

StatLine(major, minor, name, counters) ==
    <<" ", " ", " ">> \o unwords(<<Str(major), Str(minor), name>> \o counters)

\* a statistics text: sda and sda1 carry row r, sdb the next row, vda is no
\* device of any partition table used here
Diskstats(r) ==
    unlines(<<StatLine(<<8>>, <<0>>, sda, RowText(r)),
              StatLine(<<8>>, <<1>>, sda1, RowText(r)),
              StatLine(<<8>>, <<1, 6>>, sdb, RowText(NextRow(r))),
              StatLine(<<2, 5, 3>>, <<0>>, vda, RowText(1))>>)

\* the last record lacks its last field
DiskstatsShort ==
    unlines(<<StatLine(<<8>>, <<0>>, sda, RowText(1)),
              StatLine(<<2, 5, 3>>, <<0>>, vda, SubSeq(RowText(1), 1, 10))>>)

\* a counter of the record of vda is no unsigned integer
DiskstatsBadCounter ==
    unlines(<<StatLine(<<8>>, <<0>>, sda, RowText(1)),
              StatLine(<<2, 5, 3>>, <<0>>, vda, [RowText(1) EXCEPT ![4] = <<"-", "1">>])>>)

Header ==
    <<unwords(<<<<"m", "a", "j", "o", "r">>, <<"m", "i", "n", "o", "r">>,
                <<"#", "b", "l", "o", "c", "k", "s">>, <<"n", "a", "m", "e">>>>),
      <<>>>>

PartLine(major, minor, blocks, name) ==
    <<" ", " ">> \o unwords(<<Str(major), Str(minor), Str(blocks), name>>)

PartitionsDisk ==
    unlines(Header \o <<PartLine(<<8>>, <<0>>, <<1, 0, 0, 0>>, sda)>>)

PartitionsTwo ==
    unlines(Header \o <<PartLine(<<8>>, <<0>>, <<1, 0, 0, 0>>, sda),
                        PartLine(<<8>>, <<1>>, <<5, 0, 0>>, sda1),
                        PartLine(<<8>>, <<1, 6>>, <<2, 0, 0, 0>>, sdb)>>)

PartitionsNone == unlines(Header)

\* a data line of three fields
PartitionsBad ==
    unlines(Header \o <<PartLine(<<8>>, <<0>>, <<1, 0, 0, 0>>, sda),
                        unwords(<<Str(<<8>>), Str(<<1>>), sda1>>)>>)

SysNone == << >>
Sys4096 == sda :> File(<<"4", "0", "9", "6", "\n">>)
SysBad == sda :> File(<<"4", "k", "\n">>)

Poll(p, d, s) == [partitions |-> p, diskstats |-> d, sys |-> s]

\* the files of the polls that succeed: one device (sda), two devices (sda1
\* and sdb) and none
GoodFiles ==
    <<Poll(File(PartitionsDisk), File(Diskstats(1)), SysNone),
      Poll(File(PartitionsDisk), File(Diskstats(2)), SysNone),
      Poll(File(PartitionsDisk), File(Diskstats(3)), Sys4096),
      Poll(File(PartitionsTwo), File(Diskstats(2)), SysNone),
      Poll(File(PartitionsTwo), File(Diskstats(3)), SysNone),
      Poll(File(PartitionsNone), File(Diskstats(1)), SysNone)>>

\* the files of the polls that fail, one for each cause
BadFiles ==
    <<Poll(NoFile, File(Diskstats(1)), SysNone),
      Poll(File(PartitionsDisk), NoFile, SysNone),
      Poll(File(PartitionsBad), File(Diskstats(1)), SysNone),
      Poll(File(PartitionsDisk), File(DiskstatsShort), SysNone),
      Poll(File(PartitionsDisk), File(DiskstatsBadCounter), SysNone),
      Poll(File(PartitionsDisk), File(Diskstats(1)), SysBad)>>

Files == GoodFiles \o BadFiles

\* a poll's input is named by its position in Files
Inputs == 1..Len(Files)

\* disks_infos_of on the inputs, computed once: for each input the outcome
\* without and with overflow checks
SnapshotTable ==
    [fs \in Inputs |-> <<disks_infos_of(Files[fs], FALSE), disks_infos_of(Files[fs], TRUE)>>]

snapshot(fs, checks) == SnapshotTable[fs][IF checks THEN 2 ELSE 1]

(***************************************************************************)
(* DiskIOCountersNoWrap: new, cache_clear, disk_io_counters_perdisk,       *)
(* disk_io_counters.  self is the record of the three fields.              *)
(***************************************************************************)

new ==
    [disk_io_counters |-> <<>>,
     disk_io_counters_last_call |-> <<>>,
     initialize |-> FALSE]

\* cache_clear without line 107: the flag survives the reset
cache_clear_keeps_flag(self) ==
    [disk_io_counters |-> <<>>,
     disk_io_counters_last_call |-> <<>>,
     initialize |-> self.initialize]

cache_clear(self) ==
    [disk_io_counters |-> <<>>,
     disk_io_counters_last_call |-> <<>>,
     initialize |-> FALSE]

\* nowrap_next with line 191 storing the corrected vector as the baseline
nowrap_next_corrected_baseline(self, disks_infos, names, t, checks) ==
    IF t.ovf /\ checks
    THEN [self |-> self, status |-> "panic", err |-> "overflow",
          value |-> <<>>, raw |-> disks_infos, names |-> names]
    ELSE [self |-> [disk_io_counters |-> t.v,
                    disk_io_counters_last_call |-> t.v,
                    initialize |-> self.initialize],
          status |-> "ok", err |-> "none", value |-> t.v, raw |-> disks_infos,
          names |-> names]

\* nowrap_next that keeps the old baseline when the number of devices has changed
nowrap_next_stale_baseline(self, disks_infos, names, t, checks) ==
    IF t.ovf /\ checks
    THEN [self |-> self, status |-> "panic", err |-> "overflow",
          value |-> <<>>, raw |-> disks_infos, names |-> names]
    ELSE [self |-> [disk_io_counters |-> t.v,
                    disk_io_counters_last_call |->
                        IF Len(disks_infos) = Len(self.disk_io_counters_last_call)
                        THEN disks_infos ELSE self.disk_io_counters_last_call,
                    initialize |-> self.initialize],
          status |-> "ok", err |-> "none", value |-> t.v, raw |-> disks_infos,
          names |-> names]

\* nowrap_next that drops the flag
nowrap_next_unflagged(self, disks_infos, names, t, checks) ==
    IF t.ovf /\ checks
    THEN [self |-> self, status |-> "panic", err |-> "overflow",
          value |-> <<>>, raw |-> disks_infos, names |-> names]
    ELSE [self |-> [disk_io_counters |-> t.v,
                    disk_io_counters_last_call |-> disks_infos,
                    initialize |-> FALSE],
          status |-> "ok", err |-> "none", value |-> t.v, raw |-> disks_infos,
          names |-> names]

\* lines 190-192 and 198
nowrap_next(self, disks_infos, names, t, checks) ==
    IF t.ovf /\ checks
    THEN [self |-> self, status |-> "panic", err |-> "overflow",
          value |-> <<>>, raw |-> disks_infos, names |-> names]
    ELSE [self |-> [disk_io_counters |-> t.v,
                    disk_io_counters_last_call |-> disks_infos,
                    initialize |-> self.initialize],
          status |-> "ok", err |-> "none", value |-> t.v, raw |-> disks_infos,
          names |-> names]

\* nowrap_first without line 195: no baseline is stored
nowrap_first_without_baseline(self, disks_infos, names) ==
    [self |-> [disk_io_counters |-> disks_infos,
               disk_io_counters_last_call |-> self.disk_io_counters_last_call,
               initialize |-> TRUE],
     status |-> "ok", err |-> "none", value |-> disks_infos, raw |-> disks_infos,
     names |-> names]

\* lines 194-196 and 198
nowrap_first(self, disks_infos, names) ==
    [self |-> [disk_io_counters |-> disks_infos,
               disk_io_counters_last_call |-> disks_infos,
               initialize |-> TRUE],
     status |-> "ok", err |-> "none", value |-> disks_infos, raw |-> disks_infos,
     names |-> names]

\* poll_failed with the cache cleared before the error is returned
poll_failed_clearing(self, b) ==
    [self |-> cache_clear(self), status |-> b.status, err |-> b.err,
     value |-> <<>>, raw |-> <<>>, names |-> <<>>]

\* the early returns of lines 150-167: nothing of self has been assigned yet
poll_failed(self, b) ==
    [self |-> self, status |-> b.status, err |-> b.err,
     value |-> <<>>, raw |-> <<>>, names |-> <<>>]

\* a poll that stores the set it has read as the baseline in raw mode too
perdisk_return_raw_storing(self, b, nowrap, checks) ==
    IF b.status # "ok" THEN poll_failed(self, b)
    ELSE IF nowrap
    THEN IF self.initialize
         THEN nowrap_next(self, b.infos, b.names,
                          total_disk_io_counters(self.disk_io_counters_last_call, b.infos),
                          checks)
         ELSE nowrap_first(self, b.infos, b.names)
    ELSE [self |-> [disk_io_counters |-> self.disk_io_counters,
                    disk_io_counters_last_call |-> b.infos,
                    initialize |-> self.initialize],
          status |-> "ok", err |-> "none", value |-> b.infos, raw |-> b.infos,
          names |-> b.names]

\* lines 188-201, b the outcome of lines 150-186
perdisk_return(self, b, nowrap, checks) ==
    IF b.status # "ok" THEN poll_failed(self, b)
    ELSE IF nowrap
    THEN IF self.initialize
         THEN nowrap_next(self, b.infos, b.names,
                          total_disk_io_counters(self.disk_io_counters_last_call, b.infos),
                          checks)
         ELSE nowrap_first(self, b.infos, b.names)
    ELSE [self |-> self, status |-> "ok", err |-> "none", value |-> b.infos, raw |-> b.infos,
          names |-> b.names]

\* the result of a poll: the accumulator after it, "ok" / "err" / "panic", the
\* vector returned, and the raw snapshot set the poll built with its device names
disk_io_counters_perdisk(self, fs, nowrap, checks) ==
    perdisk_return(self, snapshot(fs, checks), nowrap, checks)

zero_counters ==
    [read_count |-> Zero, write_count |-> Zero, read_bytes |-> Zero, write_bytes |-> Zero,
     read_time |-> Zero, write_time |-> Zero, read_merged_count |-> Zero,
     write_merged_count |-> Zero, busy_time |-> Zero]

\* one turn of the loop of lines 129-139
add_counters(disk_io_counters_total, c) ==
    [read_count |-> u64_add(disk_io_counters_total.read_count, c.read_count),
     write_count |-> u64_add(disk_io_counters_total.write_count, c.write_count),
     read_bytes |-> u64_add(disk_io_counters_total.read_bytes, c.read_bytes),
     write_bytes |-> u64_add(disk_io_counters_total.write_bytes, c.write_bytes),
     read_time |-> u64_add(disk_io_counters_total.read_time, c.read_time),
     write_time |-> u64_add(disk_io_counters_total.write_time, c.write_time),
     read_merged_count |->
        u64_add(disk_io_counters_total.read_merged_count, c.read_merged_count),
     write_merged_count |->
        u64_add(disk_io_counters_total.write_merged_count, c.write_merged_count),
     busy_time |-> u64_add(disk_io_counters_total.busy_time, c.busy_time)]

RECURSIVE sum_from(_, _, _, _)
RECURSIVE sum_push(_, _, _, _)

sum_push(vector, i, a, ovf) == sum_from(vector, i + 1, values_of(a), ovf \/ overflow_of(a))

\* lines 129-139
sum_from(vector, i, disk_io_counters_total, ovf) ==
    IF i > Len(vector) THEN [v |-> disk_io_counters_total, ovf |-> ovf]
    ELSE sum_push(vector, i, add_counters(disk_io_counters_total, vector[i]), ovf)

\* a total that clears the cache of the accumulator once it has summed
total_return_clearing(r, sum, checks) ==
    IF sum.ovf /\ checks
    THEN [self |-> cache_clear(r.self), status |-> "panic", err |-> "overflow", polled |-> TRUE,
          value |-> r.value, raw |-> r.raw, names |-> r.names, total |-> zero_counters]
    ELSE [self |-> cache_clear(r.self), status |-> "ok", err |-> "none", polled |-> TRUE,
          value |-> r.value, raw |-> r.raw, names |-> r.names, total |-> sum.v]

\* lines 118-140
total_return(r, sum, checks) ==
    IF sum.ovf /\ checks
    THEN [self |-> r.self, status |-> "panic", err |-> "overflow", polled |-> TRUE,
          value |-> r.value, raw |-> r.raw, names |-> r.names, total |-> zero_counters]
    ELSE [self |-> r.self, status |-> "ok", err |-> "none", polled |-> TRUE,
          value |-> r.value, raw |-> r.raw, names |-> r.names, total |-> sum.v]

\* line 117, r the outcome of the poll
total_of(r, checks) ==
    IF r.status # "ok"
    THEN [self |-> r.self, status |-> r.status, err |-> r.err, polled |-> FALSE,
          value |-> <<>>, raw |-> r.raw, names |-> r.names, total |-> zero_counters]
    ELSE total_return(r, sum_from(r.value, 1, zero_counters, FALSE), checks)

\* disk_io_counters(nowrap): the poll, then the field-wise sum of what it returned
disk_io_counters_total(self, fs, nowrap, checks) ==
    total_of(disk_io_counters_perdisk(self, fs, nowrap, checks), checks)

(***************************************************************************)
(* The state machine: one accumulator instance and its callers             *)
(***************************************************************************)

MaxHistory == 3

Self ==
    [disk_io_counters |-> disk_io_counters,
     disk_io_counters_last_call |-> disk_io_counters_last_call,
     initialize |-> initialize]

\* what reads keeps of a nowrap poll: the names of its devices and the raw
\* read_count at position 1 (nothing when the poll found no device)
FirstRead(r) ==
    [names |-> r.names,
     read_count |-> IF r.raw = <<>> THEN <<>> ELSE <<r.raw[1].read_count>>]

\* the accumulator after new, before any operation
Constructed ==
    /\ disk_io_counters = new.disk_io_counters
    /\ disk_io_counters_last_call = new.disk_io_counters_last_call
    /\ initialize = new.initialize
    /\ ret = [op |-> "new", input |-> 0, nowrap |-> FALSE, status |-> "ok", err |-> "none",
              value |-> <<>>, raw |-> <<>>, names |-> <<>>, total |-> zero_counters,
              after_clear |-> FALSE, was_initialize |-> FALSE]
    /\ reads = <<>>

Init ==
    /\ Constructed
    /\ overflow_checks \in BOOLEAN
    /\ partition_table = <<>>
    /\ enumerated = <<>>
    /\ poll_files = <<>>
    /\ first_poll = <<>>

\* the accumulator and the caller after an operation; ret keeps what the operation
\* returned, and for the record which input it read (0: none), whether the operation
\* before it was cache_clear and whether the accumulator was initialized when it
\* was called
Returned(op, fs, nowrap, self, r, total, polled) ==
    /\ disk_io_counters' = self.disk_io_counters
    /\ disk_io_counters_last_call' = self.disk_io_counters_last_call
    /\ initialize' = self.initialize
    /\ ret' = [op |-> op, input |-> fs, nowrap |-> nowrap, status |-> r.status, err |-> r.err,
               value |-> r.value, raw |-> r.raw, names |-> r.names, total |-> total,
               after_clear |-> ret.op = "cache_clear", was_initialize |-> initialize]
    /\ reads' = IF nowrap /\ polled THEN Append(reads, FirstRead(r)) ELSE reads
    /\ UNCHANGED <<overflow_checks, alone>>

PerdiskReturned(fs, nowrap, r) ==
    Returned("perdisk", fs, nowrap, r.self, r, zero_counters, r.status = "ok")

TotalReturned(fs, nowrap, r) ==
    Returned("total", fs, nowrap, r.self, r, r.total, r.polled)

DiskIoCountersPerdisk(fs, nowrap) ==
    /\ ret.status # "panic"
    /\ nowrap => Len(reads) < MaxHistory
    /\ PerdiskReturned(fs, nowrap, disk_io_counters_perdisk(Self, fs, nowrap, overflow_checks))

DiskIoCounters(fs, nowrap) ==
    /\ ret.status # "panic"
    /\ nowrap => Len(reads) < MaxHistory
    /\ TotalReturned(fs, nowrap, disk_io_counters_total(Self, fs, nowrap, overflow_checks))

CacheClear ==
    /\ ret.status # "panic"
    /\ disk_io_counters' = cache_clear(Self).disk_io_counters
    /\ disk_io_counters_last_call' = cache_clear(Self).disk_io_counters_last_call
    /\ initialize' = cache_clear(Self).initialize
    /\ ret' = [op |-> "cache_clear", input |-> 0, nowrap |-> FALSE, status |-> "ok",
               err |-> "none",
               value |-> <<>>, raw |-> <<>>, names |-> <<>>, total |-> zero_counters,
               after_clear |-> ret.op = "cache_clear", was_initialize |-> initialize]
    /\ reads' = <<>>
    /\ UNCHANGED <<overflow_checks, alone>>

Next ==
    \/ \E fs \in Inputs, nowrap \in BOOLEAN : DiskIoCountersPerdisk(fs, nowrap)
    \/ \E fs \in Inputs, nowrap \in BOOLEAN : DiskIoCounters(fs, nowrap)
    \/ CacheClear

Spec == Init /\ [][Next]_vars

(***************************************************************************)
(* get_partitions on its own: it is called once on a partition table      *)
(***************************************************************************)

MaxLines == 4

sdaa == <<"s", "d", "a", "a">>

\* the data lines a partition table is made of: the lines of the disk sda, of its
\* partition sda1, of the disks sdb and sdaa, a line of three fields, a line of five
\* fields and an empty line
TableLines ==
    <<PartLine(<<8>>, <<0>>, <<1, 0, 0, 0>>, sda),
      PartLine(<<8>>, <<1>>, <<5, 0, 0>>, sda1),
      PartLine(<<8>>, <<1, 6>>, <<2, 0, 0, 0>>, sdb),
      PartLine(<<6, 5>>, <<1, 6, 0>>, <<3, 0, 0, 0>>, sdaa),
      unwords(<<Str(<<8>>), Str(<<3, 2>>), <<"s", "d", "c">>>>),
      PartLine(<<8>>, <<4, 8>>, <<4, 0, 0, 0>>, <<"s", "d", "d", " ", "x">>),
      <<>>>>

TableNames == <<sda, sda1, sdb, sdaa>>

DeviceLines == 1..Len(TableNames)

\* the kernel writes a device once, and a partition right after its disk
KernelOrder(t) ==
    /\ \A i, j \in 1..Len(t) : (i # j /\ t[i] \in DeviceLines) => t[i] # t[j]
    /\ \A i \in 1..Len(t) : t[i] = 2 => (i > 1 /\ t[i - 1] = 1)

\* the tables: their data lines, as positions in TableLines
Tables ==
    {t \in UNION {[1..n -> 1..Len(TableLines)] : n \in 0..MaxLines} : KernelOrder(t)}

\* the text of a table: the two header lines, then the data lines
TableText(t) == unlines(Header \o [i \in 1..Len(t) |-> TableLines[t[i]]])

EnumInit ==
    /\ Constructed
    /\ overflow_checks = FALSE
    /\ partition_table \in Tables
    /\ enumerated = <<>>
    /\ poll_files = <<>>
    /\ first_poll = <<>>

GetPartitions ==
    /\ enumerated = <<>>
    /\ enumerated' = <<get_partitions(TableText(partition_table))>>
    /\ UNCHANGED <<disk_io_counters, disk_io_counters_last_call, initialize, overflow_checks,
                   ret, reads, partition_table, poll_files, first_poll>>

EnumNext == GetPartitions

EnumSpec == EnumInit /\ [][EnumNext]_vars

(***************************************************************************)
(* One poll on its own: disk_io_counters_perdisk is called once, on a new  *)
(* accumulator, with one set of files                                      *)
(***************************************************************************)

\* the devices of the records of a statistics text, in the order of the text
StatDevices ==
    <<[major |-> <<8>>, minor |-> <<0>>, name |-> sda],
      [major |-> <<8>>, minor |-> <<1>>, name |-> sda1],
      [major |-> <<8>>, minor |-> <<1, 6>>, name |-> sdb],
      [major |-> <<2, 5, 3>>, minor |-> <<0>>, name |-> vda]>>

\* a record as the kernel writes it ("ok"), without its last field ("short"), with
\* a field more ("long"), or with a counter that is no unsigned integer ("counter")
Shapes == {"ok", "short", "long", "counter"}

Shaped(counters, shape) ==
    IF shape = "short" THEN SubSeq(counters, 1, 10)
    ELSE IF shape = "long" THEN Append(counters, <<"0">>)
    ELSE IF shape = "counter" THEN [counters EXCEPT ![4] = <<"-", "1">>]
    ELSE counters

\* the row of counters of the record k: as in Diskstats(r)
RowOf(k, r) == IF k <= 2 THEN r ELSE IF k = 3 THEN NextRow(r) ELSE 1

\* the statistics text of rows r whose record at position altered (0: none) has the shape
ShapedDiskstats(r, altered, shape) ==
    unlines([k \in 1..Len(StatDevices) |->
                StatLine(StatDevices[k].major, StatDevices[k].minor, StatDevices[k].name,
                         Shaped(RowText(RowOf(k, r)), IF k = altered THEN shape ELSE "ok"))])

PartitionFiles ==
    <<File(PartitionsDisk), File(PartitionsTwo), File(PartitionsNone), File(PartitionsBad),
      NoFile>>

SysFiles == <<SysNone, Sys4096, SysBad>>

\* the files of one poll are named by: the partition table (a position in
\* PartitionFiles), the rows of the statistics text (0: the text cannot be read),
\* the position and the shape of its altered record, and the sector-size
\* attributes (a position in SysFiles)
PollInputs ==
    {d \in [table : 1..Len(PartitionFiles), row : 0..NumRows, altered : 0..Len(StatDevices),
            shape : Shapes, sys : 1..Len(SysFiles)] :
        /\ (d.altered = 0) <=> (d.shape = "ok")
        /\ d.row = 0 => d.altered = 0}

FilesOf(d) ==
    Poll(PartitionFiles[d.table],
         IF d.row = 0 THEN NoFile ELSE File(ShapedDiskstats(d.row, d.altered, d.shape)),
         SysFiles[d.sys])

PollInit ==
    /\ Constructed
    /\ overflow_checks \in BOOLEAN
    /\ partition_table = <<>>
    /\ enumerated = <<>>
    /\ poll_files \in PollInputs
    /\ first_poll = <<>>

FirstPoll(nowrap) ==
    /\ first_poll = <<>>
    /\ first_poll' = <<perdisk_return(new, disks_infos_of(FilesOf(poll_files), overflow_checks),
                                      nowrap, overflow_checks)>>
    /\ UNCHANGED <<disk_io_counters, disk_io_counters_last_call, initialize, overflow_checks,
                   ret, reads, partition_table, enumerated, poll_files>>

PollNext == \E nowrap \in BOOLEAN : FirstPoll(nowrap)

PollSpec == PollInit /\ [][PollNext]_vars

(***************************************************************************)
(* Properties                                                              *)
(***************************************************************************)

Polled == ret.op \in {"perdisk", "total"}

\* the last operation was a poll in nowrap mode that returned a result
NowrapOk == Polled /\ ret.nowrap /\ ret.status = "ok"

\* the raw snapshot set of the input that the last operation read
RawRead == snapshot(ret.input, overflow_checks).infos

\* every counter of every snapshot is below 2^32
InRange(raw) == \A i \in 1..Len(raw), f \in Fields : NatLess(raw[i][f], max_value)

\* C1: from one successful nowrap poll to the next one, made right after it on the
\* same devices, with all raw counters of both polls in [0, 2^32), no counter
\* returned for a device position decreases.
C1_NonDecreasing ==
    [][(/\ NowrapOk /\ NowrapOk'
        /\ ret'.names = ret.names
        /\ InRange(ret.raw) /\ InRange(ret'.raw))
       => /\ Len(ret'.value) = Len(ret.value)
          /\ \A i \in 1..Len(ret.value), f \in Fields :
                NatGeq(ret'.value[i][f], ret.value[i][f])]_vars

WrapReads ==
    <<[names |-> <<sda>>, read_count |-> <<Small(100)>>],
      [names |-> <<sda>>, read_count |-> <<NatSub(max_value, Small(6))>>],
      [names |-> <<sda>>, read_count |-> <<Small(5)>>]>>

WrapCorrected == <<Small(100), NatSub(max_value, Small(6)), NatAdd(max_value, Small(5))>>

\* C2: a fresh accumulator whose nowrap polls, each of the one device sda, read 100,
\* then 4294967290, then 5 as its read count returns the read counts 100,
\* 4294967290 and 4294967301 (2^32 + 5).
C2_WrapExample ==
    \A k \in 1..Len(WrapReads) :
        (NowrapOk /\ reads = SubSeq(WrapReads, 1, k))
        => ret.value[1].read_count = WrapCorrected[k]

\* C3: a poll that fails leaves current, lastRaw and the initialized flag as they
\* were, in nowrap and in raw mode, Uninitialized or Initialized.
C3_FailedPollKeepsState ==
    [][(Polled' /\ ret'.status = "err")
       => /\ disk_io_counters' = disk_io_counters
          /\ disk_io_counters_last_call' = disk_io_counters_last_call
          /\ initialize' = initialize]_vars

\* a nowrap poll has failed on an unparseable sector size, on an Initialized
\* accumulator that holds snapshots
C3_FailedOnInitialized ==
    /\ Polled /\ ret.nowrap /\ ret.status = "err" /\ ret.err = "sector_size"
    /\ ret.was_initialize /\ initialize
    /\ disk_io_counters # <<>> /\ disk_io_counters_last_call # <<>>

\* C4: a successful nowrap poll made right after cache_clear returns the raw
\* snapshot set of that poll and leaves the accumulator Initialized with current =
\* lastRaw = that set, which is what the same poll makes of a new accumulator.
C4_ResetThenPoll ==
    [][(ret.op = "cache_clear" /\ NowrapOk')
       => /\ ret'.value = RawRead'
          /\ initialize'
          /\ disk_io_counters' = RawRead'
          /\ disk_io_counters_last_call' = RawRead'
          /\ Self' = disk_io_counters_perdisk(new, ret'.input, TRUE, overflow_checks).self
          /\ ret'.value
                = disk_io_counters_perdisk(new, ret'.input, TRUE, overflow_checks).value]_vars

\* an Initialized accumulator was reset and the nowrap poll after the reset has
\* returned snapshots
C4_PolledAfterReset ==
    /\ NowrapOk /\ ret.after_clear /\ ret.raw # <<>>
    /\ initialize /\ disk_io_counters = ret.raw

\* C5: current and lastRaw always have the same length, the number of snapshots
\* of the most recent successful nowrap poll.
C5_SameLength ==
    /\ Len(disk_io_counters) = Len(disk_io_counters_last_call)
    /\ NowrapOk => Len(disk_io_counters) = Len(ret.raw)

\* C6: the accumulator is created Uninitialized; only a successful poll takes it
\* from Uninitialized to Initialized; only cache_clear takes it from Initialized to
\* Uninitialized, and it always does; a poll of an Initialized accumulator leaves
\* it Initialized; a failed poll leaves the flag alone.
C6_TwoStates ==
    /\ initialize = FALSE
    /\ [][/\ (~initialize /\ initialize') => (Polled' /\ ret'.status = "ok")
          /\ (initialize /\ ~initialize') => ret'.op = "cache_clear"
          /\ ret'.op = "cache_clear" => ~initialize'
          /\ (initialize /\ Polled') => initialize'
          /\ (Polled' /\ ret'.status = "err") => initialize' = initialize]_vars

\* cache_clear has taken an Initialized accumulator back to Uninitialized
C6_ResetFromInitialized ==
    ret.op = "cache_clear" /\ ret.was_initialize /\ ~initialize

C8_Correction ==
    [][(/\ initialize /\ NowrapOk'
        /\ Len(ret'.raw) = Len(disk_io_counters_last_call))
       => /\ Len(ret'.value) = Len(ret'.raw)
          /\ \A i \in 1..Len(ret'.raw), f \in Fields :
                IF NatGeq(ret'.raw[i][f], disk_io_counters_last_call[i][f])
                THEN ret'.value[i][f] = ret'.raw[i][f]
                ELSE NatAdd(ret'.value[i][f], disk_io_counters_last_call[i][f])
                     = NatAdd(ret'.raw[i][f], max_value)]_vars

\* C9: after a successful nowrap poll lastRaw is the raw snapshot set of that poll
\* and current is the set it returned; the poll of an Initialized accumulator
\* corrects the new raw set against the raw set stored before it.
C9_Baseline ==
    [][NowrapOk'
       => /\ disk_io_counters_last_call' = RawRead'
          /\ disk_io_counters' = ret'.value
          /\ initialize =>
                ret'.value = total_disk_io_counters(disk_io_counters_last_call, RawRead').v]_vars

\* a nowrap poll of an Initialized accumulator has returned corrected values that
\* differ from the raw ones, and lastRaw holds the raw ones
C9_CorrectedPollDone ==
    /\ NowrapOk /\ ret.was_initialize /\ ret.value # <<>> /\ ret.value # ret.raw
    /\ disk_io_counters = ret.value /\ disk_io_counters_last_call = ret.raw

\* the sum of counter f over the snapshots from position i on, as an integer
RECURSIVE field_sum(_, _, _)
field_sum(vector, f, i) ==
    IF i > Len(vector) THEN Zero ELSE NatAdd(vector[i][f], field_sum(vector, f, i + 1))

\* C10: the total that disk_io_counters returns is, counter by counter, the sum
\* over the snapshots the per-disk poll returned for it; all zero when there are
\* none.
C10_TotalIsSum ==
    (ret.op = "total" /\ ret.status = "ok")
    => \A f \in Fields : ret.total[f] = field_sum(ret.value, f, 1)

C19_RawPollFrame ==
    [][(Polled' /\ ~ret'.nowrap) =>
        /\ ret'.status = "ok" => ret'.value = RawRead'
        /\ UNCHANGED <<disk_io_counters, disk_io_counters_last_call, initialize>>]_vars

\* a raw poll of an initialized accumulator returned snapshots that differ from
\* the baseline
C19_RawPollOnInitialized ==
    /\ Polled /\ ~ret.nowrap /\ ret.status = "ok"
    /\ ret.was_initialize /\ initialize
    /\ ret.value # <<>>
    /\ disk_io_counters_last_call # <<>>
    /\ ret.value # disk_io_counters_last_call

\* C20: in every nowrap poll of an initialized accumulator that has read its
\* snapshots, no step of current + max_value - past leaves the range of u64 (the
\* sum does not pass 2^64 - 1, the difference does not go below 0), for any field
\* of any device, read_bytes and write_bytes included
C20_CorrectionInRange ==
    [][(/\ initialize
        /\ Polled'
        /\ ret'.nowrap
        /\ snapshot(ret'.input, overflow_checks).status = "ok") =>
            ~total_disk_io_counters(disk_io_counters_last_call, RawRead').ovf]_vars

\* C21: disk_io_counters(true) leaves the accumulator that
\* disk_io_counters_perdisk(true) leaves when it is called in the same state on
\* the same files, whether the poll returns, fails or panics; so every nowrap
\* poll, of either operation, starts from the baseline that per-disk polls alone
\* would have left
C21_TotalSharesBaseline ==
    [][(ret'.op = "total" /\ ret'.nowrap) =>
        [disk_io_counters |-> disk_io_counters',
         disk_io_counters_last_call |-> disk_io_counters_last_call',
         initialize |-> initialize'] =
            disk_io_counters_perdisk(Self, ret'.input, TRUE, overflow_checks).self]_vars

\* a total in nowrap mode on an initialized accumulator has corrected a counter
\* and stored what it has read as the baseline
C21_TotalOnInitialized ==
    /\ ret.op = "total"
    /\ NowrapOk
    /\ ret.was_initialize
    /\ ret.value # <<>>
    /\ ret.value # ret.raw
    /\ disk_io_counters = ret.value
    /\ disk_io_counters_last_call = ret.raw

(***************************************************************************)
(* Properties of one poll                                                  *)
(***************************************************************************)

\* the poll has returned: an error, or the snapshots
PollDone == first_poll # <<>>

PollOk == PollDone /\ first_poll[1].status = "ok"

\* the poll returned an error and no snapshot, and left the accumulator as it was
PollFailed ==
    /\ first_poll[1].status = "err"
    /\ first_poll[1].err # "none"
    /\ first_poll[1].value = <<>>
    /\ first_poll[1].self = new

\* the partition table can be read and enumerated, and no sector-size attribute
\* that the poll reads is malformed
ReadsStatistics ==
    /\ poll_files.table \in {1, 2, 3}
    /\ poll_files.row # 0
    /\ poll_files.sys = 3 => poll_files.table # 1

\* C12: a poll whose statistics text has a record of 13 or 15 fields returns an
\* error and no snapshot, whichever record it is and whether or not its device
\* is enumerated, and the error is that of the field count when nothing failed
\* before the record was read; a poll whose records all have 14 fields with
\* parseable counters does not fail for its statistics text
C12_FieldCount ==
    PollDone =>
        /\ poll_files.shape \in {"short", "long"} => PollFailed
        /\ (poll_files.shape \in {"short", "long"} /\ ReadsStatistics) =>
                first_poll[1].err = "diskstats"
        /\ (poll_files.shape = "ok" /\ ReadsStatistics) => first_poll[1].status = "ok"
        /\ poll_files.shape = "ok" => first_poll[1].err \notin {"diskstats", "counter"}

\* the last record, of a device that is not enumerated, had 15 fields, after a
\* record that was enumerated
C12_LongRecordRefused ==
    /\ PollDone
    /\ poll_files.shape = "long"
    /\ poll_files.altered = 4
    /\ poll_files.table = 2
    /\ first_poll[1].err = "diskstats"

\* the devices that get_partitions returns for the partition table of the poll
Listed == get_partitions(read_file(PartitionFiles[poll_files.table]).v).v

IsListed(k) == contains(Listed, StatDevices[k].name)

\* the records of the statistics text whose device is listed, in the order of the text
Selected == SelectSeq([k \in 1..Len(StatDevices) |-> k], IsListed)

\* the raw counter c (counted from 0) of the record k
Counter(k, c) == parse_u64(RowText(RowOf(k, poll_files.row))[c + 1]).v

\* the sector size of the device of the record k is 64 * 64 = 4096 where the
\* attribute of the device says so, and 8 * 64 = 512 where the device has none
SectorFactor(k) ==
    IF poll_files.sys = 2 /\ StatDevices[k].name = sda THEN 64 ELSE 8

InBytes(sectors, k) == NatMulSmall(NatMulSmall(sectors, SectorFactor(k)), 64)

\* C13: in every snapshot of a poll that returned, read_bytes is raw counter 2
\* times the sector size of the device and write_bytes raw counter 6 times it,
\* the sector size being 512 for a device whose attribute cannot be read; and
\* read_count, write_count, read_time, write_time, read_merged_count,
\* write_merged_count and busy_time are the raw counters 0, 4, 3, 7, 1, 5 and 9
C13_ByteCounters ==
    PollOk =>
        /\ Len(first_poll[1].value) = Len(Selected)
        /\ \A i \in 1..Len(Selected) :
            /\ first_poll[1].value[i].read_bytes = InBytes(Counter(Selected[i], 2), Selected[i])
            /\ first_poll[1].value[i].write_bytes = InBytes(Counter(Selected[i], 6), Selected[i])
            /\ FitsU64(InBytes(Counter(Selected[i], 2), Selected[i]))
            /\ FitsU64(InBytes(Counter(Selected[i], 6), Selected[i]))
            /\ first_poll[1].value[i].read_count = Counter(Selected[i], 0)
            /\ first_poll[1].value[i].write_count = Counter(Selected[i], 4)
            /\ first_poll[1].value[i].read_time = Counter(Selected[i], 3)
            /\ first_poll[1].value[i].write_time = Counter(Selected[i], 7)
            /\ first_poll[1].value[i].read_merged_count = Counter(Selected[i], 1)
            /\ first_poll[1].value[i].write_merged_count = Counter(Selected[i], 5)
            /\ first_poll[1].value[i].busy_time = Counter(Selected[i], 9)

\* a snapshot of sda with sector size 4096 and 4294967290 sectors read
C13_SectorsInBytes ==
    /\ PollOk
    /\ poll_files.sys = 2
    /\ poll_files.table = 1
    /\ poll_files.row = 3
    /\ first_poll[1].value[1].read_bytes = InBytes(Counter(1, 2), 1)
    /\ first_poll[1].value[1].read_bytes # Counter(1, 2)

FirstFailure ==
    IF poll_files.table = 5 THEN "io"
    ELSE IF poll_files.table = 4 THEN "partitions"
    ELSE IF poll_files.row = 0 THEN "io"
    ELSE IF poll_files.altered = 1 /\ poll_files.shape = "counter" THEN "counter"
    ELSE IF poll_files.altered = 1 THEN "diskstats"
    ELSE IF poll_files.sys = 3 /\ poll_files.table = 1 THEN "sector_size"
    ELSE IF poll_files.shape = "counter" THEN "counter"
    ELSE IF poll_files.shape # "ok" THEN "diskstats"
    ELSE "none"

\* C17: a poll returns an error, no snapshot and an unchanged accumulator when
\* the partition table or the statistics text cannot be read, a partition line
\* or a statistics record is malformed, a counter is no unsigned integer, or the
\* sector-size attribute of a listed device is readable and no integer; the
\* error is that of the first failure.  Otherwise it returns the snapshots, with
\* sector size 512 for the devices whose attribute cannot be read
C17_FailuresAreErrors ==
    PollDone =>
        /\ first_poll[1].err = FirstFailure
        /\ FirstFailure # "none" => PollFailed
        /\ FirstFailure = "none" => first_poll[1].status = "ok"
        /\ (FirstFailure = "none" /\ poll_files.sys = 1 /\ poll_files.table \in {1, 2}) =>
                /\ first_poll[1].value # <<>>
                /\ \A i \in 1..Len(first_poll[1].value) :
                        first_poll[1].value[i].write_bytes =
                            NatMulSmall(NatMulSmall(Counter(Selected[i], 6), 8), 64)

\* the attribute of sda, a listed device, was readable and no integer
C17_BadSectorSize ==
    /\ PollDone
    /\ PollFailed
    /\ first_poll[1].err = "sector_size"
    /\ poll_files.altered = 4

(***************************************************************************)
(* Properties of get_partitions                                            *)
(***************************************************************************)

Range(q) == {q[i] : i \in 1..Len(q)}

\* get_partitions has returned a device list
Enumerated == enumerated # <<>> /\ enumerated[1].ok

\* the table has a data line of the device TableNames[k]
Names(k) == \E i \in 1..Len(partition_table) : partition_table[i] = k

\* C11: of a table whose data lines name sda and sda1, get_partitions returns
\* sda1 and not sda (only sda1 when these are its only data lines); of a table
\* whose only data line names sda, it returns sda
C11_PartitionNotDisk ==
    /\ (Enumerated /\ Names(1) /\ Names(2)) =>
            (sda1 \in Range(enumerated[1].v) /\ sda \notin Range(enumerated[1].v))
    /\ (enumerated # <<>> /\ partition_table = <<1, 2>>) => enumerated[1] = Ok(<<sda1>>)
    /\ (enumerated # <<>> /\ partition_table = <<1>>) => enumerated[1] = Ok(<<sda>>)

C11_BothNamed == Enumerated /\ Names(1) /\ Names(2) /\ Len(enumerated[1].v) > 1

\* the name of the data line i of the table
NameAt(i) == TableNames[partition_table[i]]

\* the data line i was kept: names are unique in a table
Kept(i) == NameAt(i) \in Range(enumerated[1].v)

\* the line kept most recently when the pass comes to line i: the nearest kept
\* line below it (0: none)
KeptBefore(i) ==
    IF \E j \in (i + 1)..Len(partition_table) : Kept(j)
    THEN CHOOSE j \in (i + 1)..Len(partition_table) :
            Kept(j) /\ \A k \in (i + 1)..(j - 1) : ~Kept(k)
    ELSE 0

\* C14 (as the code has it): in a pass that ends with a device list, a line whose
\* name ends in a digit is kept; a line whose name does not is kept exactly when
\* nothing was kept before it in the pass or the name kept most recently does not
\* start with its name
C14_MostRecentlyKept ==
    Enumerated =>
        \A i \in 1..Len(partition_table) :
            IF ends_with_digit(NameAt(i)) THEN Kept(i)
            ELSE Kept(i) <=>
                    (KeptBefore(i) = 0 \/ ~starts_with(NameAt(KeptBefore(i)), NameAt(i)))

\* a disk was dropped for the partition kept right before it, and another was kept
C14_DiskDropped ==
    /\ Enumerated
    /\ \E i \in 1..Len(partition_table) : ~Kept(i)
    /\ \E i \in 1..Len(partition_table) : ~ends_with_digit(NameAt(i)) /\ Kept(i)

\* C14 (as claimed): a line whose name does not end in a digit is kept only if no
\* name kept earlier in the pass, at any position, starts with it
C14_AnyEarlierKept ==
    Enumerated =>
        \A i \in 1..Len(partition_table) :
            (~ends_with_digit(NameAt(i)) /\ Kept(i)) =>
                \A j \in (i + 1)..Len(partition_table) :
                    Kept(j) => ~starts_with(NameAt(j), NameAt(i))

\* the table has a data line that does not have four fields
Malformed == \E i \in 1..Len(partition_table) : partition_table[i] \notin DeviceLines

\* C16: get_partitions does not read the two header lines as data; it fails with
\* the parse error, and returns no device list, exactly when a data line does not
\* have four fields (three, five or none); the list it returns has names of
\* data lines only
C16_HeaderAndFieldCount ==
    enumerated # <<>> =>
        /\ Malformed => enumerated[1] = Err("partitions")
        /\ ~Malformed =>
                /\ enumerated[1].ok
                /\ Range(enumerated[1].v) \subseteq {NameAt(i) : i \in 1..Len(partition_table)}

\* a table with an empty line after the lines of two devices was refused
C16_EmptyLineRefused ==
    /\ enumerated # <<>>
    /\ ~enumerated[1].ok
    /\ Len(partition_table) = 3
    /\ partition_table[3] = 7
    /\ partition_table[1] \in DeviceLines
    /\ partition_table[2] \in DeviceLines

====
